---- MODULE Spec2Model ----
(***************************************************************************)
(* Model of src/controller.rs: ControllerDispatch (a route list behind a   *)
(* std::sync::RwLock), its registration operations add / add_with_guards   *)
(* and its dispatch operation, called concurrently by several threads.     *)
(***************************************************************************)
EXTENDS Integers, Sequences, FiniteSets, TLC

(* ---------------------------------------------------------------- bounds *)

\* Registrations are accepted by the model while the route list (plus the
\* registrations in progress) holds fewer than MaxDelegates entries.
MaxDelegates == 2

\* Registrations called by handlers that the model accepts at a time, beside
\* those counted against MaxDelegates.
MaxReentrant == 1

(* ---------------------------------------------------------------- inputs *)

Threads == {"t1", "t2"}

Methods == {"Get", "Post"}

\* Path specifications handed to add / add_with_guards, as character sequences.
SpecExactA == <<"^", "/", "a", "$">>
SpecA == <<"/", "a">>
SpecBad == <<"(">>
PathSpecs == {SpecExactA, SpecA, SpecBad}

\* Request paths, as character sequences.
PathA == <<"/", "a">>
PathAB == <<"/", "a", "/", "b">>
Paths == {PathA, PathAB}

\* Request body lengths.
BodyLens == {0, 1}

\* Guard implementations: BodyGuard of the source, and two user guards: Deny
\* writes a status and stops, Allow writes a status and continues.
GuardLists == {<< >>, <<"BodyGuard", "Deny">>, <<"Allow", "BodyGuard">>}

(* ------------------------------------------------------ pattern compiler *)

RECURSIVE ParenDepth(_, _)
\* Nesting depth after reading s from depth d; -1 once a ")" has no "(".
ParenDepth(s, d) ==
    IF d < 0 THEN -1
    ELSE IF s = << >> THEN d
    ELSE IF Head(s) = "(" THEN ParenDepth(Tail(s), d + 1)
    ELSE IF Head(s) = ")" THEN ParenDepth(Tail(s), d - 1)
    ELSE ParenDepth(Tail(s), d)

\* A path specification the pattern compiler accepts.
WellFormed(s) == ParenDepth(s, 0) = 0

NoRegex == [anchS |-> FALSE, lit |-> << >>, anchE |-> FALSE]

\* The compiled pattern of a well-formed specification of literals and anchors.
CompileRegex(s) ==
    LET anchS == Len(s) > 0 /\ s[1] = "^"
        anchE == Len(s) > 0 /\ s[Len(s)] = "$"
        first == IF anchS THEN 2 ELSE 1
        last == IF anchE THEN Len(s) - 1 ELSE Len(s)
    IN [anchS |-> anchS, lit |-> SubSeq(s, first, last), anchE |-> anchE]

\* path.to_regex(): Ok(regex) or Err.
ToRegex(s) ==
    IF WellFormed(s) THEN [ok |-> TRUE, regex |-> CompileRegex(s)]
    ELSE [ok |-> FALSE, regex |-> NoRegex]

\* Mutant of IsMatch: the pattern has to match the whole text.
IsMatchWhole(reg, path) == reg.lit = path

\* Regex::is_match: the text contains a match of the pattern.
IsMatch(reg, path) ==
    \E i \in 1..(Len(path) + 1) :
        LET j == i + Len(reg.lit) - 1 IN
            /\ j <= Len(path)
            /\ SubSeq(path, i, j) = reg.lit
            /\ reg.anchS => i = 1
            /\ reg.anchE => j = Len(path)

(* ------------------------------------------------------------ guards etc *)

NoGuards == [some |-> FALSE, guards |-> << >>]
SomeGuards(gs) == [some |-> TRUE, guards |-> gs]

EmptyResponse == [status |-> "Unset"]

\* Mutant of Validate: BodyGuard compares with `<` and lets every body pass.
ValidateBodyLess(g, body, res) ==
    IF g = "BodyGuard"
    THEN IF body < 0 THEN [cont |-> "None", res |-> res]
                     ELSE [cont |-> "Next", res |-> res]
    ELSE IF g = "Deny"
    THEN [cont |-> "None", res |-> [res EXCEPT !.status = "Forbidden"]]
    ELSE [cont |-> "Next", res |-> [res EXCEPT !.status = "Allowed"]]

\* RequestGuard::validate for the guards of the model.
Validate(g, body, res) ==
    IF g = "BodyGuard"
    THEN IF body <= 0 THEN [cont |-> "None", res |-> res]
                      ELSE [cont |-> "Next", res |-> res]
    ELSE IF g = "Deny"
    THEN [cont |-> "None", res |-> [res EXCEPT !.status = "Forbidden"]]
    ELSE [cont |-> "Next", res |-> [res EXCEPT !.status = "Allowed"]]

\* A registered handler: writes its status into the response.
RunHandler(f, res) == [res EXCEPT !.status = "Ok"]

(* ----------------------------------------------------------------- state *)

VARIABLES
    delegates,  \* the route list: Vec<ControllerDelegate<T>>
    readers,    \* threads holding the read lock
    writers,    \* threads holding the write lock
    poisoned,   \* the RwLock's poison flag
    th          \* per thread: position in its call and the call's locals

vars == <<delegates, readers, writers, poisoned, th>>

Idle ==
    [pc |-> "idle", op |-> "none", method |-> "Get", path |-> << >>,
     guards |-> NoGuards, body |-> 0, res |-> EmptyResponse,
     reg |-> NoRegex, retained |-> << >>, i |-> 0, gi |-> 0,
     log |-> << >>, outcome |-> "none", seen |-> << >>, outer |-> << >>]

Init ==
    /\ delegates = << >>
    /\ readers = {}
    /\ writers = {}
    /\ poisoned = FALSE
    /\ th = [t \in Threads |-> Idle]


(* ------------------------------------------------------------------ lock *)

\* Mutant of CanRead: a read that does not wait for the writer.
CanReadDespiteWriter == TRUE

\* RwLock::read returns once no writer holds the lock.
CanRead == writers = {}

\* Mutant of CanWrite: a write that does not wait for the readers.
CanWriteDespiteReaders == writers = {}

\* RwLock::write returns once no reader and no writer holds the lock.
CanWrite == writers = {} /\ readers = {}

\* Registrations in progress (called, not yet returned or panicked), called
\* from outside the handlers.
Adding == {t \in Threads : th[t].op = "add" /\ th[t].pc # "done" /\ th[t].outer = << >>}

\* Registrations in progress called by a handler.
AddingInHandler == {t \in Threads : th[t].op = "add" /\ th[t].outer # << >>}

(* ---------------------------------------------------------- registration *)

\* Mutant of Push: the entry is inserted at the front.
PushFront(list, e) == <<e>> \o list

\* Vec::push
Push(list, e) == Append(list, e)

\* The caller enters add (opg = NoGuards) or add_with_guards (opg = Some(..)).
AddCall(t, m, spec, opg) ==
    /\ th[t].pc = "idle"
    /\ Len(delegates) + Cardinality(Adding) < MaxDelegates
    /\ th' = [th EXCEPT ![t] = [Idle EXCEPT !.pc = "add_lock", !.op = "add",
                                            !.method = m, !.path = spec,
                                            !.guards = opg]]
    /\ UNCHANGED <<delegates, readers, writers, poisoned>>

\* self.delegates.write().unwrap(): the receiver of push, evaluated first.
\* On a poisoned lock write() returns Err, unwrap panics and the guard inside
\* the error is dropped.
AddLock(t) ==
    /\ th[t].pc = "add_lock"
    /\ CanWrite
    /\ IF poisoned
       THEN /\ th' = [th EXCEPT ![t].pc = "done", ![t].outcome = "panic"]
            /\ UNCHANGED writers
       ELSE /\ th' = [th EXCEPT ![t].pc = "add_compile"]
            /\ writers' = writers \cup {t}
    /\ UNCHANGED <<delegates, readers, poisoned>>

\* Mutant of AddCompile: a compilation failure is swallowed and the entry is
\* registered with an empty pattern.
AddCompileSwallow(t) ==
    /\ th[t].pc = "add_compile"
    /\ th' = [th EXCEPT ![t].pc = "add_push", ![t].reg = ToRegex(th[t].path).regex]
    /\ UNCHANGED <<delegates, readers, writers, poisoned>>

\* reg!(path): the argument of push, evaluated while the write guard lives.
\* A malformed specification panics; unwinding drops the write guard, which
\* poisons the lock.
AddCompile(t) ==
    /\ th[t].pc = "add_compile"
    /\ LET r == ToRegex(th[t].path) IN
         IF r.ok
         THEN /\ th' = [th EXCEPT ![t].pc = "add_push", ![t].reg = r.regex]
              /\ UNCHANGED <<writers, poisoned>>
         ELSE /\ th' = [th EXCEPT ![t].pc = "done", ![t].outcome = "panic"]
              /\ writers' = writers \ {t}
              /\ poisoned' = TRUE
    /\ UNCHANGED <<delegates, readers>>

\* Every registration boxes a closure of its own (Box::new(delegate_func)):
\* the closure is named after the number of closures registered before it.
BoxFunc(list) == Len(list) + 1

\* push((method, regex, guards, Box::new(delegate_func)))
AddPush(t) ==
    /\ th[t].pc = "add_push"
    /\ delegates' = Push(delegates, [method |-> th[t].method, reg |-> th[t].reg,
                                     guards |-> th[t].guards,
                                     func |-> BoxFunc(delegates)])
    /\ th' = [th EXCEPT ![t].pc = "add_unlock"]
    /\ UNCHANGED <<readers, writers, poisoned>>

\* Mutant of AddUnlock: the write guard is leaked and the lock stays taken.
AddUnlockLeaks(t) ==
    /\ th[t].pc = "add_unlock"
    /\ th' = [th EXCEPT ![t].pc = "done", ![t].outcome = "added"]
    /\ UNCHANGED <<delegates, readers, writers, poisoned>>

\* End of the statement: the temporary write guard is dropped, add returns:
\* to its caller, or into the handler that called it (outer).
AddUnlock(t) ==
    /\ th[t].pc = "add_unlock"
    /\ writers' = writers \ {t}
    /\ th' = IF th[t].outer = << >>
             THEN [th EXCEPT ![t].pc = "done", ![t].outcome = "added"]
             ELSE [th EXCEPT ![t] = th[t].outer[1]]
    /\ UNCHANGED <<delegates, readers, poisoned>>

(* -------------------------------------------------------------- dispatch *)

\* The caller enters dispatch with a request and a fresh response.
DispatchCall(t, m, path, body) ==
    /\ th[t].pc = "idle"
    /\ th' = [th EXCEPT ![t] = [Idle EXCEPT !.pc = "d_lock", !.op = "dispatch",
                                            !.method = m, !.path = path,
                                            !.body = body]]
    /\ UNCHANGED <<delegates, readers, writers, poisoned>>

\* let delegates_list = self.delegates.read().unwrap();
DispatchLock(t) ==
    /\ th[t].pc = "d_lock"
    /\ CanRead
    /\ IF poisoned
       THEN /\ th' = [th EXCEPT ![t].pc = "done", ![t].outcome = "panic",
                                ![t].seen = delegates]
            /\ UNCHANGED readers
       ELSE /\ th' = [th EXCEPT ![t].pc = "d_filter", ![t].seen = delegates]
            /\ readers' = readers \cup {t}
    /\ UNCHANGED <<delegates, writers, poisoned>>

\* delegates_list.iter().filter(|x| x.0 == method): the positions retained.
RetainedDelegate(list, m) ==
    LET Keep(k) == list[k].method = m
    IN SelectSeq([k \in 1..Len(list) |-> k], Keep)

\* Lines 131-138: filter by method; an empty result is METHOD_NOT_ALLOWED.
DispatchFilter(t) ==
    /\ th[t].pc = "d_filter"
    /\ LET ret == RetainedDelegate(delegates, th[t].method) IN
         IF Len(ret) = 0
         THEN /\ th' = [th EXCEPT ![t].pc = "done",
                                  ![t].res.status = "MethodNotAllowed",
                                  ![t].outcome = "method_not_allowed"]
              /\ readers' = readers \ {t}
         ELSE /\ th' = [th EXCEPT ![t].pc = "d_scan", ![t].retained = ret,
                                  ![t].i = 1]
              /\ UNCHANGED readers
    /\ UNCHANGED <<delegates, writers, poisoned>>

\* Mutant of GuardsOf: the collection is iterated from its end.
GuardsOfReversed(opg) ==
    IF opg.some
    THEN [j \in 1..Len(opg.guards) |-> opg.guards[Len(opg.guards) + 1 - j]]
    ELSE << >>

\* The guards the dispatcher iterates for an entry (lines 144-145).
GuardsOf(opg) == IF opg.some THEN opg.guards ELSE << >>

\* Mutant of DispatchScan: the read lock is released once the entry is found,
\* and the guards and the handler run without it.
DispatchScanUnlocks(t) ==
    /\ th[t].pc = "d_scan"
    /\ IF th[t].i > Len(th[t].retained)
       THEN /\ th' = [th EXCEPT ![t].pc = "done",
                                ![t].res.status = "BadRequest",
                                ![t].outcome = "bad_request"]
            /\ readers' = readers \ {t}
       ELSE LET del == delegates[th[t].retained[th[t].i]] IN
            IF IsMatch(del.reg, th[t].path)
            THEN /\ th' = [th EXCEPT ![t].pc = IF GuardsOf(del.guards) = << >>
                                               THEN "d_handler" ELSE "d_guard",
                                     ![t].gi = 1]
                 /\ readers' = readers \ {t}
            ELSE th' = [th EXCEPT ![t].i = @ + 1] /\ UNCHANGED readers
    /\ UNCHANGED <<delegates, writers, poisoned>>

\* Mutant of DispatchScan: an entry whose guard collection is empty is taken
\* as rejected.
DispatchScanEmptyRejects(t) ==
    /\ th[t].pc = "d_scan"
    /\ IF th[t].i > Len(th[t].retained)
       THEN /\ th' = [th EXCEPT ![t].pc = "done",
                                ![t].res.status = "BadRequest",
                                ![t].outcome = "bad_request"]
            /\ readers' = readers \ {t}
       ELSE LET del == delegates[th[t].retained[th[t].i]] IN
            IF IsMatch(del.reg, th[t].path)
            THEN IF ~del.guards.some
                 THEN th' = [th EXCEPT ![t].pc = "d_handler"] /\ UNCHANGED readers
                 ELSE IF del.guards.guards = << >>
                 THEN /\ th' = [th EXCEPT ![t].pc = "done", ![t].outcome = "rejected"]
                      /\ readers' = readers \ {t}
                 ELSE th' = [th EXCEPT ![t].pc = "d_guard", ![t].gi = 1]
                      /\ UNCHANGED readers
            ELSE th' = [th EXCEPT ![t].i = @ + 1] /\ UNCHANGED readers
    /\ UNCHANGED <<delegates, writers, poisoned>>

\* Lines 140-143 and 156: one iteration of `for del in retained_delegate`,
\* or the BAD_REQUEST after the loop.
DispatchScan(t) ==
    /\ th[t].pc = "d_scan"
    /\ IF th[t].i > Len(th[t].retained)
       THEN /\ th' = [th EXCEPT ![t].pc = "done",
                                ![t].res.status = "BadRequest",
                                ![t].outcome = "bad_request"]
            /\ readers' = readers \ {t}
       ELSE LET del == delegates[th[t].retained[th[t].i]] IN
            /\ IF IsMatch(del.reg, th[t].path)
               THEN IF GuardsOf(del.guards) = << >>
                    THEN th' = [th EXCEPT ![t].pc = "d_handler"]
                    ELSE th' = [th EXCEPT ![t].pc = "d_guard", ![t].gi = 1]
               ELSE th' = [th EXCEPT ![t].i = @ + 1]
            /\ UNCHANGED readers
    /\ UNCHANGED <<delegates, writers, poisoned>>

GuardEvent(k, pos, g, c) ==
    [kind |-> "guard", del |-> k, pos |-> pos, name |-> g, cont |-> c]
HandlerEvent(k, f) ==
    [kind |-> "handler", del |-> k, pos |-> 0, name |-> f, cont |-> "Next"]

\* Mutant of DispatchGuard: a guard's None breaks out of the guard loop only,
\* and the handler runs.
DispatchGuardBreak(t) ==
    /\ th[t].pc = "d_guard"
    /\ LET k == th[t].retained[th[t].i]
           gs == GuardsOf(delegates[k].guards)
           g == gs[th[t].gi]
           v == Validate(g, th[t].body, th[t].res)
           log2 == Append(th[t].log, GuardEvent(k, th[t].gi, g, v.cont))
       IN th' = [th EXCEPT ![t].pc = IF v.cont = "None" \/ th[t].gi = Len(gs)
                                     THEN "d_handler" ELSE "d_guard",
                           ![t].gi = @ + 1, ![t].res = v.res, ![t].log = log2]
    /\ UNCHANGED <<delegates, readers, writers, poisoned>>

\* Lines 145-149: one iteration of `for guard in guards`.
DispatchGuard(t) ==
    /\ th[t].pc = "d_guard"
    /\ LET k == th[t].retained[th[t].i]
           gs == GuardsOf(delegates[k].guards)
           g == gs[th[t].gi]
           v == Validate(g, th[t].body, th[t].res)
           log2 == Append(th[t].log, GuardEvent(k, th[t].gi, g, v.cont))
       IN IF v.cont = "None"
          THEN /\ th' = [th EXCEPT ![t].pc = "done", ![t].res = v.res,
                                   ![t].log = log2, ![t].outcome = "rejected"]
               /\ readers' = readers \ {t}
          ELSE /\ th' = [th EXCEPT ![t].pc = IF th[t].gi = Len(gs) THEN "d_handler"
                                             ELSE "d_guard",
                                   ![t].gi = @ + 1, ![t].res = v.res,
                                   ![t].log = log2]
               /\ UNCHANGED readers
    /\ UNCHANGED <<delegates, writers, poisoned>>

\* Mutant of DispatchHandler: without the return of line 152 the dispatch goes
\* on to the status write of line 156.
DispatchHandlerFallsThrough(t) ==
    /\ th[t].pc = "d_handler"
    /\ LET k == th[t].retained[th[t].i]
           f == delegates[k].func
       IN th' = [th EXCEPT ![t].pc = "done",
                           ![t].res = [RunHandler(f, th[t].res)
                                           EXCEPT !.status = "BadRequest"],
                           ![t].log = Append(@, HandlerEvent(k, f)),
                           ![t].outcome = "handled"]
    /\ readers' = readers \ {t}
    /\ UNCHANGED <<delegates, writers, poisoned>>

\* Lines 151-152: boxed_func(&self.delegate_context, req, res); return;
DispatchHandler(t) ==
    /\ th[t].pc = "d_handler"
    /\ LET k == th[t].retained[th[t].i]
           f == delegates[k].func
       IN th' = [th EXCEPT ![t].pc = "done", ![t].res = RunHandler(f, th[t].res),
                           ![t].log = Append(@, HandlerEvent(k, f)),
                           ![t].outcome = "handled"]
    /\ readers' = readers \ {t}
    /\ UNCHANGED <<delegates, writers, poisoned>>

\* The caller has its result (or caught the panic) and may call again.
Return(t) ==
    /\ th[t].pc = "done"
    /\ th' = [th EXCEPT ![t] = Idle]
    /\ UNCHANGED <<delegates, readers, writers, poisoned>>

(* --------------------------------------------------------- specification *)

OptGuards == {NoGuards} \cup {SomeGuards(gs) : gs \in GuardLists}

\* The calls a thread makes. t1 draws from every input; t2, a second worker
\* running beside it, from a few.
AddInputs(t) ==
    IF t = "t1"
    THEN [method : Methods, spec : PathSpecs, guards : OptGuards]
    ELSE [method : {"Get"}, spec : {SpecA, SpecBad}, guards : {NoGuards}]

DispatchInputs(t) ==
    IF t = "t1"
    THEN [method : Methods, path : Paths, body : BodyLens]
    ELSE [method : {"Get"}, path : {PathA}, body : {1}]

Next ==
    \E t \in Threads :
        \/ \E a \in AddInputs(t) : AddCall(t, a.method, a.spec, a.guards)
        \/ AddLock(t)
        \/ AddCompile(t)
        \/ AddPush(t)
        \/ AddUnlock(t)
        \/ \E d \in DispatchInputs(t) : DispatchCall(t, d.method, d.path, d.body)
        \/ DispatchLock(t)
        \/ DispatchFilter(t)
        \/ DispatchScan(t)
        \/ DispatchGuard(t)
        \/ DispatchHandler(t)
        \/ Return(t)

Spec == Init /\ [][Next]_vars


(* ------------------------------------------------------------ properties *)

DoneDispatch(t) == th[t].op = "dispatch" /\ th[t].pc = "done"

\* A dispatch between taking the read lock and returning.
Reading(t) == th[t].pc \in {"d_filter", "d_scan", "d_guard", "d_handler"}

\* A registration between taking the write lock and returning.
Writing(t) == th[t].pc \in {"add_compile", "add_push", "add_unlock"}

\* Positions of the entries with the request's method and a matching pattern.
Matching(list, m, path) ==
    {k \in 1..Len(list) : list[k].method = m /\ IsMatch(list[k].reg, path)}

\* The first of them in registration order, 0 when there is none.
FirstMatch(list, m, path) ==
    LET S == Matching(list, m, path)
    IN IF S = {} THEN 0 ELSE CHOOSE k \in S : \A j \in S : k <= j

\* Every guard of the entry returns Next on a request with this body.
GuardsPass(e, body) ==
    e.guards.some =>
        \A j \in 1..Len(e.guards.guards) :
            Validate(e.guards.guards[j], body, EmptyResponse).cont = "Next"

IsHandlerEvent(ev) == ev.kind = "handler"
HandlerEvents(log) == SelectSeq(log, IsHandlerEvent)

IsPrefix(a, b) == Len(a) <= Len(b) /\ SubSeq(b, 1, Len(a)) = a

\* The list a finished dispatch ran against, and its first match in it.
FirstMatchOf(t) == FirstMatch(th[t].seen, th[t].method, th[t].path)

\* C1: whenever some entry has the request's method and a matching pattern,
\* and the first such entry has no guards or only guards returning Next, the
\* dispatch invokes that entry's handler exactly once and no other handler.
FirstMatchWins ==
    \A t \in Threads :
        DoneDispatch(t) =>
            LET k == FirstMatchOf(t) IN
                (k # 0 /\ GuardsPass(th[t].seen[k], th[t].body)) =>
                    HandlerEvents(th[t].log) = <<HandlerEvent(k, th[t].seen[k].func)>>

\* C2: when no entry has the request's method, the dispatch sets the status
\* METHOD_NOT_ALLOWED and runs no guard and no handler.
NoMethodIsMethodNotAllowed ==
    \A t \in Threads :
        (DoneDispatch(t)
           /\ \A k \in 1..Len(th[t].seen) : th[t].seen[k].method # th[t].method) =>
            /\ th[t].res.status = "MethodNotAllowed"
            /\ th[t].log = << >>

\* C3: when some entry has the request's method and none of those matches the
\* path, the dispatch sets the status BAD_REQUEST and runs no guard and no
\* handler.
NoPathIsBadRequest ==
    \A t \in Threads :
        (DoneDispatch(t)
           /\ \E k \in 1..Len(th[t].seen) : th[t].seen[k].method = th[t].method
           /\ FirstMatchOf(t) = 0) =>
            /\ th[t].res.status = "BadRequest"
            /\ th[t].log = << >>

\* The routing of C1, C2 and C3 holds of every dispatch that got the lock
\* unpoisoned.
RoutingUnlessPoisoned ==
    \A t \in Threads :
        (DoneDispatch(t) /\ th[t].outcome # "panic") =>
            LET k == FirstMatchOf(t)
                none == \A j \in 1..Len(th[t].seen) :
                            th[t].seen[j].method # th[t].method
            IN /\ (k # 0 /\ GuardsPass(th[t].seen[k], th[t].body)) =>
                     HandlerEvents(th[t].log) = <<HandlerEvent(k, th[t].seen[k].func)>>
               /\ none => th[t].res.status = "MethodNotAllowed" /\ th[t].log = << >>
               /\ (~none /\ k = 0) =>
                     th[t].res.status = "BadRequest" /\ th[t].log = << >>

\* C4: once a guard of the first matching entry has returned None, that is
\* the last thing the dispatch runs: no later guard, no handler, and nothing
\* of any other entry.
NoFallthroughOnReject ==
    \A t \in Threads :
        \A j \in 1..Len(th[t].log) :
            (th[t].log[j].kind = "guard" /\ th[t].log[j].cont = "None") =>
                /\ j = Len(th[t].log)
                /\ th[t].pc = "done"
                /\ th[t].outcome = "rejected"
                /\ th[t].log[j].del = FirstMatchOf(t)
                /\ th[t].retained[th[t].i] = th[t].log[j].del
                /\ \A n \in 1..Len(th[t].log) :
                       /\ th[t].log[n].kind = "guard"
                       /\ th[t].log[n].del = th[t].log[j].del
                       /\ th[t].log[n].pos = n

\* A dispatch rejected by a guard that has a later guard behind it, while a
\* later entry matches the request as well.
RejectedBeforeLaterMatch ==
    \E t \in Threads :
        /\ DoneDispatch(t)
        /\ th[t].outcome = "rejected"
        /\ LET k == FirstMatchOf(t) IN
              /\ k # 0
              /\ Len(th[t].log) < Len(th[t].seen[k].guards.guards)
              /\ \E k2 \in Matching(th[t].seen, th[t].method, th[t].path) : k2 > k

\* An entry as registration builds it.
CompleteEntry(e) ==
    /\ e.method \in Methods
    /\ \E spec \in PathSpecs : WellFormed(spec) /\ e.reg = CompileRegex(spec)
    /\ e.guards \in OptGuards
    /\ e.func >= 1

\* C5: a dispatch holding the read lock works on the list it found when it
\* took the lock; that list holds complete entries only and no registration
\* is between taking the write lock and returning.
AtomicRegistration ==
    \A t \in Threads :
        Reading(t) =>
            /\ delegates = th[t].seen
            /\ \A k \in 1..Len(delegates) : CompleteEntry(delegates[k])
            /\ \A k \in 1..Len(th[t].retained) : th[t].retained[k] \in 1..Len(delegates)
            /\ \A u \in Threads : ~Writing(u)

\* A dispatch is scanning a non-empty list while a registration waits.
DispatchBesideWaitingAdd ==
    \E t, u \in Threads :
        /\ th[t].pc \in {"d_scan", "d_guard", "d_handler"}
        /\ th[u].pc = "add_lock"
        /\ Len(delegates) >= 1

\* C6: no step of a registration with a malformed path specification changes
\* the route list, and the registration ends in the failure.
MalformedAddLeavesList ==
    [][\A t \in Threads :
          (th[t].op = "add" /\ ~WellFormed(th[t].path) /\ th'[t] # th[t]) =>
              /\ delegates' = delegates
              /\ th'[t].pc = "done" => th'[t].outcome = "panic"
              /\ th'[t].pc # "done" => th'[t].pc \in {"idle", "add_compile"}]_vars

\* A registration with a malformed path specification has failed on a
\* non-empty list.
MalformedAddFailed ==
    \E t \in Threads :
        /\ th[t].op = "add"
        /\ th[t].pc = "done"
        /\ ~WellFormed(th[t].path)
        /\ th[t].outcome = "panic"
        /\ Len(delegates) >= 1

\* C7: the only call that ends in an error is a registration with a malformed
\* path specification; no dispatch and no other registration does.
OnlyMalformedAddFails ==
    \A t \in Threads :
        (th[t].pc = "done" /\ th[t].outcome = "panic") =>
            th[t].op = "add" /\ ~WellFormed(th[t].path)

\* C8: at most one thread holds the write lock, and none holds the read lock
\* meanwhile; the lock holders are the calls between lock and return.
ReaderWriterExclusion ==
    /\ Cardinality(writers) <= 1
    /\ writers # {} => readers = {}
    /\ readers = {t \in Threads : Reading(t)}
    /\ writers = {t \in Threads : Writing(t)}

\* Two dispatches hold the read lock and are inside guards or handlers.
TwoReadersInside ==
    /\ readers = Threads
    /\ \A t \in Threads : th[t].pc \in {"d_guard", "d_handler"}

\* C9: a dispatch whose first matching entry has no guard collection or an
\* empty one invokes that entry's handler, runs nothing else and leaves the
\* handler's response; the one other end, the panic on a poisoned lock, does
\* not depend on the entry.
EmptyGuardsAsNone ==
    \A t \in Threads :
        DoneDispatch(t) =>
            LET k == FirstMatchOf(t) IN
                (k # 0 /\ th[t].seen[k].guards \in {NoGuards, SomeGuards(<< >>)}) =>
                    \/ /\ th[t].outcome = "handled"
                       /\ th[t].log = <<HandlerEvent(k, th[t].seen[k].func)>>
                       /\ th[t].res = RunHandler(th[t].seen[k].func, EmptyResponse)
                    \/ /\ th[t].outcome = "panic"
                       /\ poisoned
                       /\ th[t].log = << >>
                       /\ th[t].res = EmptyResponse

\* A dispatch has run the handler of a first match registered with an empty
\* guard collection, before a later entry that matches too.
HandledWithEmptyGuards ==
    \E t \in Threads :
        /\ DoneDispatch(t)
        /\ th[t].outcome = "handled"
        /\ LET k == FirstMatchOf(t) IN
              /\ k # 0
              /\ th[t].seen[k].guards = SomeGuards(<< >>)
              /\ \E k2 \in Matching(th[t].seen, th[t].method, th[t].path) : k2 > k

\* C10: every step leaves the route list as it is or appends one entry to it,
\* and only the push of a registration appends.
RouteListOnlyGrows ==
    [][/\ IsPrefix(delegates, delegates')
       /\ Len(delegates') <= Len(delegates) + 1
       /\ delegates' # delegates =>
              \E t \in Threads : th[t].pc = "add_push" /\ th'[t].pc = "add_unlock"]_vars

\* The list holds two entries and a dispatch has run a handler on it.
GrownListServed ==
    /\ Len(delegates) >= 2
    /\ \E t \in Threads :
           DoneDispatch(t) /\ th[t].outcome = "handled" /\ Len(th[t].seen) >= 2


(* ------------------------------------------------- C11: pattern matching *)

SpecPrefixA == <<"^", "/", "a">>
PathBA == <<"/", "b", "/", "a">>

\* Registrations and requests that tell the kinds of pattern apart.
MatchAddInputs(t) ==
    IF t = "t1"
    THEN [method : {"Get"}, spec : {SpecExactA, SpecPrefixA, SpecA, SpecBad},
          guards : {NoGuards, SomeGuards(<<"BodyGuard">>)}]
    ELSE [method : {"Get"}, spec : {SpecA}, guards : {NoGuards}]

MatchDispatchInputs(t) ==
    IF t = "t1"
    THEN [method : {"Get"}, path : {PathA, PathAB, PathBA}, body : {1}]
    ELSE [method : {"Get"}, path : {PathA}, body : {1}]

NextMatch ==
    \E t \in Threads :
        \/ \E a \in MatchAddInputs(t) : AddCall(t, a.method, a.spec, a.guards)
        \/ AddLock(t)
        \/ AddCompile(t)
        \/ AddPush(t)
        \/ AddUnlock(t)
        \/ \E d \in MatchDispatchInputs(t) : DispatchCall(t, d.method, d.path, d.body)
        \/ DispatchLock(t)
        \/ DispatchFilter(t)
        \/ DispatchScan(t)
        \/ DispatchGuard(t)
        \/ DispatchHandler(t)
        \/ Return(t)

SpecMatch == Init /\ [][NextMatch]_vars

\* What each kind of pattern is to match, spelled out kind by kind.
StartsWith(path, lit) == Len(lit) <= Len(path) /\ SubSeq(path, 1, Len(lit)) = lit
EndsWith(path, lit) ==
    Len(lit) <= Len(path) /\ SubSeq(path, Len(path) - Len(lit) + 1, Len(path)) = lit
Contains(path, lit) ==
    \E n \in 0..Len(path) : StartsWith(SubSeq(path, n + 1, Len(path)), lit)
ShouldMatch(reg, path) ==
    IF reg.anchS /\ reg.anchE THEN path = reg.lit
    ELSE IF reg.anchS THEN StartsWith(path, reg.lit)
    ELSE IF reg.anchE THEN EndsWith(path, reg.lit)
    ELSE Contains(path, reg.lit)

\* The entry a dispatch has selected: the one its scan stopped at.
Selected(t) ==
    IF th[t].pc \in {"d_guard", "d_handler"} \/ th[t].outcome \in {"handled", "rejected"}
    THEN th[t].retained[th[t].i] ELSE 0

\* C11: the entry a dispatch selects is the first entry of the request's
\* method whose pattern occurs in the path: at its start for a pattern
\* anchored in front, anywhere for an unanchored one, and as the whole path
\* for a pattern anchored at both ends; a dispatch ending in BAD_REQUEST
\* found no such entry.
ContainsMatchSelects ==
    \A t \in Threads :
        LET k == Selected(t)
            before == IF k # 0 THEN k - 1
                      ELSE IF th[t].outcome = "bad_request" THEN Len(th[t].seen)
                      ELSE 0
        IN /\ k # 0 => /\ th[t].seen[k].method = th[t].method
                       /\ ShouldMatch(th[t].seen[k].reg, th[t].path)
           /\ \A j \in 1..before :
                  th[t].seen[j].method = th[t].method =>
                      ~ShouldMatch(th[t].seen[j].reg, th[t].path)

\* A request for /a/b has passed over a pattern anchored at both ends and
\* was given to a pattern anchored in front only.
PrefixPatternTookLongerPath ==
    \E t \in Threads :
        /\ DoneDispatch(t)
        /\ th[t].outcome = "handled"
        /\ th[t].path = PathAB
        /\ Selected(t) = 2
        /\ th[t].seen[1].reg = CompileRegex(SpecExactA)
        /\ th[t].seen[2].reg = CompileRegex(SpecPrefixA)


(* ------------------------------------------------------- C12: BodyGuard *)

\* The guard a dispatch is about to evaluate.
CurrentGuard(t) ==
    delegates[th[t].retained[th[t].i]].guards.guards[th[t].gi]

\* C12: every evaluation of BodyGuard leaves the response as it was and
\* returns None when the body is empty and Next when it is not; and no
\* handler of an entry guarded by BodyGuard runs for a request with an empty
\* body.
BodyGuardStopsEmptyBody ==
    /\ [][\A t \in Threads :
             (th[t].pc = "d_guard" /\ th'[t] # th[t] /\ CurrentGuard(t) = "BodyGuard") =>
                 /\ th'[t].res = th[t].res
                 /\ Len(th'[t].log) = Len(th[t].log) + 1
                 /\ th'[t].log[Len(th'[t].log)].name = "BodyGuard"
                 /\ th'[t].log[Len(th'[t].log)].cont =
                        (IF th[t].body = 0 THEN "None" ELSE "Next")]_vars
    /\ [](\A t \in Threads :
             \A n \in 1..Len(th[t].log) :
                 (/\ th[t].log[n].kind = "handler"
                  /\ \E j \in 1..Len(th[t].seen[th[t].log[n].del].guards.guards) :
                         th[t].seen[th[t].log[n].del].guards.guards[j] = "BodyGuard") =>
                     th[t].body # 0)

\* BodyGuard has stopped a request with an empty body, the response untouched.
BodyGuardRejected ==
    \E t \in Threads :
        /\ DoneDispatch(t)
        /\ th[t].outcome = "rejected"
        /\ th[t].body = 0
        /\ th[t].log[Len(th[t].log)].name = "BodyGuard"
        /\ th[t].res = EmptyResponse


(* -------------------------------------------------- C13: BasicController *)

\* Mutant of BasicHandle: the controller writes a status before it forwards.
BasicHandlePresets(t, m, path, body) ==
    /\ th[t].pc = "idle"
    /\ th' = [th EXCEPT ![t] = [Idle EXCEPT !.pc = "d_lock", !.op = "dispatch",
                                            !.method = m, !.path = path,
                                            !.body = body, !.res.status = "Ok"]]
    /\ UNCHANGED <<delegates, readers, writers, poisoned>>

\* BasicController::handle: self.dispatch.dispatch(req, res);
BasicHandle(t, m, path, body) == DispatchCall(t, m, path, body)

\* BasicController::add: self.dispatch.add(method, path, delegate_func);
BasicAdd(t, m, spec) == AddCall(t, m, spec, NoGuards)

\* BasicController::add_with_guards:
\* self.dispatch.add_with_guards(method, path, guards, delegate_func);
BasicAddWithGuards(t, m, spec, gs) == AddCall(t, m, spec, SomeGuards(gs))

\* The calls made on a BasicController.
BasicAddInputs(t) ==
    IF t = "t1"
    THEN [method : Methods, spec : PathSpecs,
          guards : {NoGuards, SomeGuards(<<"Allow", "BodyGuard">>)}]
    ELSE [method : {"Get"}, spec : {SpecA}, guards : {NoGuards}]

\* A BasicController and the threads calling it: every call enters through
\* the controller, the table inside it does the rest.
NextBasic ==
    \E t \in Threads :
        \/ \E a \in BasicAddInputs(t) :
               ~a.guards.some /\ BasicAdd(t, a.method, a.spec)
        \/ \E a \in BasicAddInputs(t) :
               a.guards.some /\ BasicAddWithGuards(t, a.method, a.spec, a.guards.guards)
        \/ AddLock(t)
        \/ AddCompile(t)
        \/ AddPush(t)
        \/ AddUnlock(t)
        \/ \E d \in DispatchInputs(t) : BasicHandle(t, d.method, d.path, d.body)
        \/ DispatchLock(t)
        \/ DispatchFilter(t)
        \/ DispatchScan(t)
        \/ DispatchGuard(t)
        \/ DispatchHandler(t)
        \/ Return(t)

SpecBasic == Init /\ [][NextBasic]_vars

\* C13: every step of a BasicController and its callers is a step of the
\* ControllerDispatch inside it under the corresponding add, add_with_guards
\* and dispatch calls: the controller adds nothing before or after.
BasicControllerForwards == [][Next]_vars

\* A request handled through the controller by an entry registered through
\* the controller's add_with_guards, after both of its guards.
ControllerServedGuarded ==
    \E t \in Threads :
        /\ DoneDispatch(t)
        /\ th[t].outcome = "handled"
        /\ Len(th[t].log) = 3
        /\ th[t].res.status = "Ok"


(* ------------------------------------------ C14: extent of the write lock *)

\* C14: the write lock is held for the append only: a registration that is
\* compiling its path specification does not hold it.
WriteLockOnlyForAppend ==
    \A t \in Threads : th[t].pc = "add_compile" => t \notin writers


(* ------------------------------------------- C15: extent of the read lock *)

\* C15: from taking the read lock to its return a dispatch holds the lock;
\* no step taken meanwhile changes the route list or lets a waiting
\* registration take the write lock, and the lock is given up in the step
\* that ends the dispatch.
ReadLockSpansDispatch ==
    [][\A t \in Threads :
          Reading(t) =>
              /\ t \in readers
              /\ delegates' = delegates
              /\ \A u \in Threads : th[u].pc = "add_lock" => th'[u].pc = "add_lock"
              /\ t \notin readers' <=> th'[t].pc = "done"]_vars

\* A registration was called while a handler runs and waits for the lock.
AddWaitsForHandler ==
    \E t, u \in Threads :
        /\ th[t].pc = "d_handler"
        /\ t \in readers
        /\ th[u].pc = "add_lock"


(* ------------------------------------------ C16: guards before the handler *)

\* C16: the guards a dispatch evaluates are those of its first matching
\* entry, one after the other in the order of the collection; a handler runs
\* last, for that entry, after each guard of the collection was evaluated
\* once and returned Next.
GuardsThenHandler ==
    \A t \in Threads :
        \A n \in 1..Len(th[t].log) :
            LET k == FirstMatchOf(t)
                ev == th[t].log[n]
            IN /\ k # 0
               /\ ev.del = k
               /\ ev.kind = "guard" =>
                      /\ th[t].seen[k].guards.some
                      /\ n <= Len(th[t].seen[k].guards.guards)
                      /\ ev.name = th[t].seen[k].guards.guards[n]
                      /\ ev.pos = n
               /\ ev.kind = "handler" =>
                      /\ n = Len(th[t].log)
                      /\ n = Len(th[t].seen[k].guards.guards) + 1
                      /\ ev.name = th[t].seen[k].func
                      /\ \A j \in 1..(n - 1) :
                             th[t].log[j].kind = "guard" /\ th[t].log[j].cont = "Next"

\* A handler has run after the two guards of its entry, the second entry of
\* the list; the first entry has guards too and did not match.
SecondEntryGuardsRan ==
    \E t \in Threads :
        /\ DoneDispatch(t)
        /\ Len(th[t].log) = 3
        /\ th[t].log[1].name = "Allow"
        /\ th[t].log[2].name = "BodyGuard"
        /\ th[t].log[3].kind = "handler"
        /\ th[t].log[3].del = 2
        /\ th[t].seen[1].method = th[t].method
        /\ th[t].seen[1].guards.guards # << >>


(* ------------------------------------- C17: the dispatcher's own writes *)

RECURSIVE Replay(_, _, _)
\* The response after the guards and the handler of a log have written to it.
Replay(log, body, res) ==
    IF log = << >> THEN res
    ELSE Replay(Tail(log), body,
                IF Head(log).kind = "guard"
                THEN Validate(Head(log).name, body, res).res
                ELSE RunHandler(Head(log).name, res))

\* C17: the response of a dispatch is the caller's response with the writes
\* of the guards and the handler it ran, and nothing else, unless the
\* dispatch ended in one of the two fallbacks: then it ran nothing and the
\* one write is the fallback status.
OnlyFallbacksWriteStatus ==
    \A t \in Threads :
        th[t].op = "dispatch" =>
            IF th[t].outcome = "method_not_allowed"
            THEN th[t].log = << >> /\ th[t].res = [EmptyResponse EXCEPT !.status = "MethodNotAllowed"]
            ELSE IF th[t].outcome = "bad_request"
            THEN th[t].log = << >> /\ th[t].res = [EmptyResponse EXCEPT !.status = "BadRequest"]
            ELSE th[t].res = Replay(th[t].log, th[t].body, EmptyResponse)

\* A dispatch ended by a guard's None carries that guard's status, and a
\* dispatch ended by its handler the handler's.
GuardStatusIsFinal ==
    /\ \E t \in Threads :
           DoneDispatch(t) /\ th[t].outcome = "rejected" /\ th[t].res.status = "Forbidden"
    /\ \E t \in Threads :
           DoneDispatch(t) /\ th[t].outcome = "handled" /\ th[t].res.status = "Ok"


(* ------------------------------------------- C18: the ends of a dispatch *)

\* The four ends of a dispatch that hold of thread t.
OutcomesOf(t) ==
    LET log == th[t].log IN
    {o \in {"method_not_allowed", "bad_request", "rejected", "handled"} :
        \/ o = "method_not_allowed" /\ th[t].res.status = "MethodNotAllowed"
        \/ o = "bad_request" /\ th[t].res.status = "BadRequest"
        \/ o = "rejected" /\ log # << >> /\ log[Len(log)].kind = "guard"
                          /\ log[Len(log)].cont = "None"
        \/ o = "handled" /\ HandlerEvents(log) # << >>}

\* C18: a finished dispatch has ended in exactly one of METHOD_NOT_ALLOWED
\* written, BAD_REQUEST written, a guard's rejection and a handler's
\* invocation, and has invoked at most one handler.
ExactlyOneOutcome ==
    \A t \in Threads :
        DoneDispatch(t) =>
            /\ Cardinality(OutcomesOf(t)) = 1
            /\ Len(HandlerEvents(th[t].log)) <= 1

\* The four ends exclude one another, and a dispatch that did not panic has
\* one of them.
OutcomesExclusive ==
    \A t \in Threads :
        /\ Cardinality(OutcomesOf(t)) <= 1
        /\ Len(HandlerEvents(th[t].log)) <= 1
        /\ (DoneDispatch(t) /\ th[t].outcome # "panic") => OutcomesOf(t) = {th[t].outcome}


(* --------------------------------------------------------- C19: progress *)

\* Calls of two threads that contend for the lock.
LiveAddInputs(t) ==
    IF t = "t1"
    THEN [method : {"Get"}, spec : {SpecA, SpecBad},
          guards : {NoGuards, SomeGuards(<<"Allow", "BodyGuard">>)}]
    ELSE [method : {"Get"}, spec : {SpecA}, guards : {NoGuards}]

LiveDispatchInputs(t) ==
    IF t = "t1"
    THEN [method : Methods, path : {PathA}, body : BodyLens]
    ELSE [method : {"Get"}, path : {PathA}, body : {1}]

NextLive ==
    \E t \in Threads :
        \/ \E a \in LiveAddInputs(t) : AddCall(t, a.method, a.spec, a.guards)
        \/ AddLock(t)
        \/ AddCompile(t)
        \/ AddPush(t)
        \/ AddUnlock(t)
        \/ \E d \in LiveDispatchInputs(t) : DispatchCall(t, d.method, d.path, d.body)
        \/ DispatchLock(t)
        \/ DispatchFilter(t)
        \/ DispatchScan(t)
        \/ DispatchGuard(t)
        \/ DispatchHandler(t)
        \/ Return(t)

\* A thread inside a call keeps running: the code of add and dispatch has no
\* suspension point and the guards and handlers return. A thread waiting for
\* the lock gets it when the lock is free again and again (fair lock).
Fairness ==
    \A t \in Threads :
        /\ WF_vars(AddCompile(t) \/ AddPush(t) \/ AddUnlock(t))
        /\ WF_vars(DispatchFilter(t) \/ DispatchScan(t) \/ DispatchGuard(t)
                       \/ DispatchHandler(t))
        /\ SF_vars(AddLock(t))
        /\ SF_vars(DispatchLock(t))

SpecLive == Init /\ [][NextLive]_vars /\ Fairness

\* C19: every call of dispatch, add or add_with_guards that was entered
\* comes to its end.
EveryCallEnds ==
    \A t \in Threads : (th[t].pc \notin {"idle", "done"}) ~> (th[t].pc = "done")

\* A registration waits for the lock while a dispatch is inside a guard.
AddWaitsForGuard ==
    \E t, u \in Threads :
        /\ th[t].pc = "add_lock"
        /\ th[u].pc = "d_guard"
        /\ u \in readers


(* ------------------------------------------ C20: re-entrant registration *)

\* A handler running inside dispatch calls add / add_with_guards on the same
\* table: the thread enters the registration with its dispatch, which holds
\* the read lock, kept as the caller to return to.
HandlerCallsAdd(t, m, spec, opg) ==
    /\ th[t].pc = "d_handler"
    /\ Cardinality(AddingInHandler) < MaxReentrant
    /\ Len(delegates) < MaxDelegates + MaxReentrant
    /\ th' = [th EXCEPT ![t] = [Idle EXCEPT !.pc = "add_lock", !.op = "add",
                                            !.method = m, !.path = spec,
                                            !.guards = opg, !.outer = <<th[t]>>]]
    /\ UNCHANGED <<delegates, readers, writers, poisoned>>

\* RwLock::write "might panic when called if the lock is already held by the
\* current thread": where it does, the panic unwinds through the handler and
\* the dispatch, whose read guard is dropped (a read guard does not poison).
AddLockPanicsHeld(t) ==
    /\ th[t].pc = "add_lock"
    /\ th[t].outer # << >>
    /\ t \in readers
    /\ th' = [th EXCEPT ![t] = [th[t].outer[1] EXCEPT !.pc = "done",
                                                     !.outcome = "panic"]]
    /\ readers' = readers \ {t}
    /\ UNCHANGED <<delegates, writers, poisoned>>

ReentrantAddInputs(t) ==
    [method : {"Get"}, spec : {SpecA, SpecBad},
     guards : IF t = "t1" THEN {NoGuards, SomeGuards(<<"Allow", "BodyGuard">>)}
              ELSE {NoGuards}]

ReentrantDispatchInputs(t) ==
    [method : {"Get"}, path : {PathA, PathAB}, body : IF t = "t1" THEN BodyLens ELSE {1}]

\* The table with handlers that may register routes on it.
NextReentrant ==
    \E t \in Threads :
        \/ \E a \in ReentrantAddInputs(t) : AddCall(t, a.method, a.spec, a.guards)
        \/ AddLock(t)
        \/ AddCompile(t)
        \/ AddPush(t)
        \/ AddUnlock(t)
        \/ \E d \in ReentrantDispatchInputs(t) :
               DispatchCall(t, d.method, d.path, d.body)
        \/ DispatchLock(t)
        \/ DispatchFilter(t)
        \/ DispatchScan(t)
        \/ DispatchGuard(t)
        \/ DispatchHandler(t)
        \/ \E a \in ReentrantAddInputs(t) :
               HandlerCallsAdd(t, a.method, a.spec, a.guards)
        \/ AddLockPanicsHeld(t)
        \/ Return(t)

SpecReentrant == Init /\ [][NextReentrant]_vars

\* A registration called by a handler, waiting for the write lock.
Reentered(t) == th[t].pc = "add_lock" /\ th[t].outer # << >>

\* C20 as stated: a registration called by a handler inside dispatch never
\* returns and its dispatch never completes: once waiting, it waits forever.
ReentrantAddWaitsForever ==
    [][\A t \in Threads : Reentered(t) => Reentered(t)']_vars

\* C20 as amended: a registration called by a handler inside dispatch holds
\* the read lock while it waits for the write lock; as long as it waits no
\* registration takes the write lock and the route list stays as it is; and
\* the wait ends in no other way than by the panic of RwLock::write, which
\* ends the dispatch without a result and gives the read lock up.
ReentrantAddNeverRegisters ==
    [][\A t \in Threads :
          Reentered(t) =>
              /\ t \in readers
              /\ writers = {} /\ writers' = {}
              /\ delegates' = delegates
              /\ \/ th'[t] = th[t]
                 \/ /\ th'[t] = [th[t].outer[1] EXCEPT !.pc = "done",
                                                       !.outcome = "panic"]
                    /\ th'[t].op = "dispatch"
                    /\ t \notin readers']_vars

\* A handler's registration waits for the write lock, and so does a
\* registration another thread called after it.
ReentrantAddBlocksOthers ==
    \E t, u \in Threads :
        /\ Reentered(t)
        /\ th[u].pc = "add_lock"
        /\ th[u].outer = << >>

====
